---- MODULE Spec2Model ----
(***************************************************************************)
(* Model of the ML service orchestrator of CorpFin360                      *)
(* (backend/ml/service_orchestrator.py) together with the part of the      *)
(* three model classes (backend/ml/models/*.py) the orchestrator observes: *)
(* the is_trained flag, which estimators have been fitted, and where       *)
(* train / predict raise.                                                  *)
(*                                                                         *)
(* Conventions                                                             *)
(*   - a Python dict is Dict(f) with f a function from keys to integers;   *)
(*     Python None is PyNone;                                              *)
(*   - a call either returns a value (Return) or lets an exception escape  *)
(*     (Raise);                                                            *)
(*   - the event-loop clock asyncio.get_event_loop().time() is the         *)
(*     variable now, a monotonic counter; an absent / None timestamp is    *)
(*     None;                                                               *)
(*   - price_change_percent is kept in units of 1/10000 so that the        *)
(*     thresholds 0.02 and -0.02 are the integers 200 and -200;            *)
(*   - ratios are compared by cross-multiplication (the denominators are   *)
(*     tested positive first, as in the code).                             *)
(***************************************************************************)
EXTENDS Integers, Sequences, FiniteSets, TLC

VARIABLES initialized,   \* self.initialized
          models,        \* self.models: name -> service object
          model_status,  \* self.model_status: name -> status dict
          now,           \* event-loop clock
          comp,          \* the comprehensive_analysis call in flight
          last           \* the step just taken and what it gave its caller

vars == <<initialized, models, model_status, now, comp, last>>

\* ----------------------------------------------------------------- bounds
MaxTime == 2

\* ------------------------------------------------------------ Python data
None == -1

PyNone == [type |-> "NoneType"]

Dict(f) == [type |-> "dict", items |-> f]

EmptyItems == [k \in {} |-> 0]

IsDict(x) == x.type = "dict"

HasNever(x, k) == FALSE

Has(x, k) == k \in DOMAIN x.items

GetDefault(x, k, default) == default

Get(x, k, default) == IF Has(x, k) THEN x.items[k] ELSE default

Truthy(x) == IsDict(x) /\ DOMAIN x.items # {}

Return(v) == [kind |-> "return", value |-> v]

Raise(msg) == [kind |-> "raise", error |-> msg]

Returned(o) == o.kind = "return"

MinCappedAtTen(a, b) == IF a < 10 THEN a ELSE 10

Min(a, b) == IF a < b THEN a ELSE b

MaxFirst(a, b) == a

Max(a, b) == IF a > b THEN a ELSE b

\* ----------------------------------------------------------------- inputs
StrongCompany == Dict([revenue |-> 2000000, net_income |-> 400000,
                       total_assets |-> 1000000, total_liabilities |-> 400000])

NoAssetsCompany == Dict([revenue |-> 500000, net_income |-> 50000,
                         total_assets |-> 0, total_liabilities |-> 0])

CompanyInputs == {StrongCompany, NoAssetsCompany, Dict(EmptyItems), PyNone}

RisingMarket == Dict([current_price |-> 100, price_change_percent |-> 500])

MarketInputs == {RisingMarket, Dict(EmptyItems), PyNone}

\* The (company_data, market_data) pairs given to comprehensive_analysis.
ComprehensiveInputs == {<<StrongCompany, RisingMarket>>, <<StrongCompany, PyNone>>,
                        <<NoAssetsCompany, RisingMarket>>, <<Dict(EmptyItems), Dict(EmptyItems)>>,
                        <<PyNone, RisingMarket>>}

\* The inputs on which the rule-based fallbacks are exercised: every side of
\* every threshold (margins 0.05 and 0.15 at revenue 100, debt ratios 0.5 and
\* 0.7 at assets 100, revenue 1,000,000, price changes of 0.02 and -0.02),
\* zero and negative amounts, and dicts in which keys are absent. Revenues
\* are multiples of 5, so that 0.8 and 1.2 times a valuation are integers.
Restrict(f, K) == [k \in K |-> f[k]]

CompanyRecords == [revenue : {0 - 5, 0, 100, 1000000, 2000000},
                   net_income : {0 - 10, 5, 6, 15, 16},
                   total_assets : {0, 100},
                   total_liabilities : {49, 50, 69, 70}]

CompanyKeys == {"revenue", "net_income", "total_assets", "total_liabilities"}

CompanyGrid ==
    {Dict(Restrict(f, K)) : f \in CompanyRecords,
                            K \in {CompanyKeys, CompanyKeys \ {"revenue"},
                                   CompanyKeys \ {"net_income"},
                                   CompanyKeys \ {"total_assets"}, {"net_income"}, {}}}
    \cup CompanyInputs

MarketGrid ==
    {Dict([price_change_percent |-> change]) :
        change \in {0 - 500, 0 - 201, 0 - 200, 0 - 199, 0, 199, 200, 201, 500}}
    \cup MarketInputs

FH == "financial_health"

BV == "business_valuation"

MT == "market_trends"

Domains == {FH, BV, MT}

ModelNames == Domains \cup {"unknown_model"}

\* ---------------------------------------------------------- training data
\* A training set is described by what decides the control flow of train():
\* whether every example has the keys the loop reads, how many examples
\* there are, and (market model) which targets the examples carry.
TrainingSet(wf, n, price, vol, news) ==
    [wellformed |-> wf, n |-> n, price |-> price, volatility |-> vol, sentiment |-> news]

MalformedData == TrainingSet(FALSE, 1, FALSE, FALSE, FALSE)

EmptyData == TrainingSet(TRUE, 0, FALSE, FALSE, FALSE)

FewData == TrainingSet(TRUE, 4, TRUE, FALSE, FALSE)

FullData == TrainingSet(TRUE, 10, TRUE, FALSE, FALSE)

VolatilityData == TrainingSet(TRUE, 10, FALSE, TRUE, FALSE)

\* The (model_name, training_data) pairs given to train_model: for each
\* model the training sets on which its train() takes different paths.
TrainCalls == {<<"financial_health", MalformedData>>, <<"financial_health", FewData>>,
               <<"financial_health", FullData>>,
               <<"business_valuation", MalformedData>>, <<"business_valuation", FewData>>,
               <<"business_valuation", FullData>>,
               <<"market_trends", EmptyData>>, <<"market_trends", FullData>>,
               <<"market_trends", VolatilityData>>,
               <<"unknown_model", FullData>>}

\* cross_val_score(..., cv=5) raises when there are fewer examples than folds.
CvFolds == 5

\* ------------------------------------------------ FinancialHealthModel
HealthEstimators == {"feature_selector", "scaler", "health_classifier", "risk_regressor"}

FinancialHealthModel == [is_trained |-> FALSE, fitted |-> {}]

\* prepare_features: the divisions it performs on the keys the inputs carry.
health_prepare_features(data) ==
    IF ~IsDict(data) THEN Raise("argument of type 'NoneType' is not iterable")
    ELSE IF Has(data, "revenue") /\ Has(data, "total_assets") /\ data.items["total_assets"] = 0
         THEN Raise("division by zero")
    ELSE IF Has(data, "net_income") /\ Has(data, "revenue") /\ data.items["revenue"] = 0
         THEN Raise("division by zero")
    ELSE Return("features")

\* The fitted estimators are opaque: what they answer is a fixed function of
\* the input.
PredictedHealthScore(data) == IF Get(data, "revenue", 0) > 1000000 THEN 85 ELSE 30

PredictedRiskScore(data) == IF Get(data, "revenue", 0) > 1000000 THEN 15 ELSE 65

categorize_health(score) ==
    IF score >= 80 THEN "Excellent"
    ELSE IF score >= 60 THEN "Good"
    ELSE IF score >= 40 THEN "Fair"
    ELSE IF score >= 20 THEN "Poor"
    ELSE "Critical"

categorize_risk(score) ==
    IF score <= 20 THEN "Low Risk"
    ELSE IF score <= 40 THEN "Moderate Risk"
    ELSE IF score <= 60 THEN "High Risk"
    ELSE "Very High Risk"

predict_health(model, data) ==
    IF ~model.is_trained THEN Raise("Model not trained yet")
    ELSE IF ~Returned(health_prepare_features(data)) THEN health_prepare_features(data)
    ELSE IF ~(HealthEstimators \subseteq model.fitted) THEN Raise("This estimator is not fitted yet")
    ELSE Return([health_score |-> PredictedHealthScore(data),
                 risk_score |-> PredictedRiskScore(data),
                 health_category |-> categorize_health(PredictedHealthScore(data)),
                 risk_category |-> categorize_risk(PredictedRiskScore(data))])

\* train: result.model is the service after the call, result.outcome what the
\* call returned or raised. is_trained is set before cross_val_score runs.
FinancialHealthModel_train(model, td) ==
    IF ~td.wellformed
    THEN [model |-> model, outcome |-> Raise("Training failed: 'metrics'")]
    ELSE IF td.n = 0
    THEN [model |-> model, outcome |-> Raise("Training failed: empty array")]
    ELSE LET fit == [model EXCEPT !.fitted = HealthEstimators, !.is_trained = TRUE]
         IN  IF td.n < CvFolds
             THEN [model |-> fit, outcome |-> Raise("Training failed: n_splits=5 cannot be greater than the number of members in each class")]
             ELSE [model |-> fit, outcome |-> Return("Model trained successfully")]

health_get_feature_importance(model) ==
    IF ~model.is_trained THEN Raise("Model not trained yet")
    ELSE Return("importance")

\* ---------------------------------------------- BusinessValuationModel
ValuationEstimators == {"feature_selector", "scaler", "models", "best_model"}

BusinessValuationModel == [is_trained |-> FALSE, fitted |-> {}]

valuation_prepare_features(data) ==
    IF ~IsDict(data) THEN Raise("argument of type 'NoneType' is not iterable")
    ELSE IF Has(data, "revenue") /\ Has(data, "net_income") /\ data.items["revenue"] = 0
         THEN Raise("division by zero")
    ELSE IF Has(data, "total_assets") /\ Has(data, "net_income") /\ data.items["total_assets"] = 0
         THEN Raise("division by zero")
    ELSE IF Has(data, "revenue") /\ Has(data, "total_assets") /\ data.items["total_assets"] = 0
         THEN Raise("division by zero")
    ELSE Return("features")

PredictedValuation(data) == IF Get(data, "revenue", 0) > 1000000 THEN 12000000 ELSE 3000000

predict_valuation(model, data) ==
    IF ~model.is_trained THEN Raise("Models not trained yet")
    ELSE IF ~Returned(valuation_prepare_features(data)) THEN valuation_prepare_features(data)
    ELSE IF ~(ValuationEstimators \subseteq model.fitted) THEN Raise("This estimator is not fitted yet")
    ELSE Return([valuation |-> PredictedValuation(data), best_model |-> "random_forest"])

\* train: the selector and the scaler are refitted before the first
\* cross_val_score; is_trained is set last.
BusinessValuationModel_train(model, td) ==
    IF ~td.wellformed
    THEN [model |-> model, outcome |-> Raise("Training failed: 'metrics'")]
    ELSE IF td.n = 0
    THEN [model |-> model, outcome |-> Raise("Training failed: empty array")]
    ELSE IF td.n < CvFolds
    THEN [model |-> [model EXCEPT !.fitted = @ \cup {"feature_selector", "scaler"}],
          outcome |-> Raise("Training failed: Cannot have number of splits n_splits=5 greater than the number of samples")]
    ELSE [model |-> [model EXCEPT !.fitted = ValuationEstimators, !.is_trained = TRUE],
          outcome |-> Return("Models trained successfully")]

valuation_get_feature_importance(model) ==
    IF ~model.is_trained THEN Return("None")
    ELSE Return("importance")

\* ------------------------------------------------------ MarketTrendModel
MarketEstimators == {"scaler", "price_scaler", "price_predictor",
                     "volatility_scaler", "volatility_predictor"}

MarketTrendModel == [is_trained |-> FALSE, fitted |-> {}]

market_prepare_features(data) ==
    IF ~IsDict(data) THEN Raise("argument of type 'NoneType' is not iterable")
    ELSE Return("features")

\* predict_market_trends always calls volatility_predictor.predict (every
\* estimator has a predict attribute), which raises unless it was fitted.
predict_market_trends(model, data) ==
    IF ~model.is_trained THEN Raise("Models not trained yet")
    ELSE IF ~Returned(market_prepare_features(data)) THEN market_prepare_features(data)
    ELSE IF ~(MarketEstimators \subseteq model.fitted) THEN Raise("This estimator is not fitted yet")
    ELSE Return([trend_direction |-> "sideways", confidence_score |-> 6])

\* train: the sentiment branch of the loop raises ('toarray' of an ndarray).
\* With price targets the price estimators are fitted and X_market becomes an
\* ndarray, whose truth value "if X_market and y_volatility" (line 155) then
\* raises. Without price targets, volatility targets reach line 157, which
\* calls reshape on a list and raises. is_trained is set last: train()
\* returns only when no estimator was fitted.
MarketTrendModel_train(model, td) ==
    IF ~td.wellformed
    THEN [model |-> model, outcome |-> Raise("Training failed: 'market_data'")]
    ELSE IF td.n > 0 /\ td.sentiment
    THEN [model |-> model, outcome |-> Raise("Training failed: 'numpy.ndarray' object has no attribute 'toarray'")]
    ELSE IF td.n > 0 /\ td.price
    THEN [model |-> [model EXCEPT !.fitted = @ \cup {"scaler", "price_scaler", "price_predictor"}],
          outcome |-> Raise("Training failed: The truth value of an array with more than one element is ambiguous")]
    ELSE IF td.n > 0 /\ td.volatility
    THEN [model |-> model, outcome |-> Raise("Training failed: 'list' object has no attribute 'reshape'")]
    ELSE [model |-> [model EXCEPT !.is_trained = TRUE],
          outcome |-> Return("Market trend models trained successfully")]

market_get_feature_importance(model) ==
    IF "price_predictor" \in model.fitted THEN Return("price_prediction") ELSE Return("empty")

\* ------------------------------------------------------ fallback methods
default_financial_health_analysis(company_data) ==
    IF ~IsDict(company_data) THEN Raise("'NoneType' object has no attribute 'get'")
    ELSE
    LET revenue == Get(company_data, "revenue", 0)
        profit == Get(company_data, "net_income", 0)
        assets == Get(company_data, "total_assets", 0)
        liabilities == Get(company_data, "total_liabilities", 0)
        \* profit_margin > 0.15, > 0.05; debt_ratio < 0.5, < 0.7
        margin_gt_15 == revenue > 0 /\ profit * 100 > 15 * revenue
        margin_gt_05 == revenue > 0 /\ profit * 100 > 5 * revenue
        debt_lt_50 == IF assets > 0 THEN liabilities * 10 < 5 * assets ELSE TRUE
        debt_lt_70 == IF assets > 0 THEN liabilities * 10 < 7 * assets ELSE TRUE
        s1 == 50 + (IF margin_gt_15 THEN 20 ELSE IF margin_gt_05 THEN 10 ELSE 0)
        s2 == s1 + (IF debt_lt_50 THEN 20 ELSE IF debt_lt_70 THEN 10 ELSE 0)
        s3 == s2 + (IF revenue > 1000000 THEN 10 ELSE 0)
        health_score == Min(s3, 100)
    IN  Return([health_score |-> health_score,
                risk_score |-> 100 - health_score,
                health_category |-> IF health_score > 60 THEN "Good"
                                    ELSE IF health_score > 40 THEN "Fair" ELSE "Poor",
                risk_category |-> IF health_score > 60 THEN "Low Risk"
                                  ELSE IF health_score > 40 THEN "Moderate Risk" ELSE "High Risk",
                analysis_method |-> "rule_based_fallback"])

default_business_valuation(company_data) ==
    IF ~IsDict(company_data) THEN Raise("'NoneType' object has no attribute 'get'")
    ELSE
    LET revenue == Get(company_data, "revenue", 1000000)
        profit == Get(company_data, "net_income", 100000)
        revenue_based == revenue * 2
        profit_based == profit * 15
        valuation == Max(revenue_based, profit_based)
    IN  Return([valuation |-> valuation,
                valuation_range |-> [min |-> (valuation * 8) \div 10,
                                     max |-> (valuation * 12) \div 10],
                methodology |-> <<"Revenue multiple approach", "Profit multiple approach">>,
                analysis_method |-> "multiple_based_fallback"])

\* A fallback that answers from the clock as well as from its input.
default_market_trend_analysis_stateful(market_data) ==
    IF ~IsDict(market_data) THEN Raise("'NoneType' object has no attribute 'get'")
    ELSE Return([trend_direction |-> IF now = 0 /\ Get(market_data, "price_change_percent", 0) > 200
                                     THEN "bullish" ELSE "neutral",
                 confidence_score |-> 5,
                 key_factors |-> <<"Price movement analysis">>,
                 analysis_method |-> "trend_based_fallback"])

default_market_trend_analysis(market_data) ==
    IF ~IsDict(market_data) THEN Raise("'NoneType' object has no attribute 'get'")
    ELSE
    LET change == Get(market_data, "price_change_percent", 0)
        trend_direction == IF Has(market_data, "price_change_percent") /\ change > 200 THEN "bullish"
                           ELSE IF Has(market_data, "price_change_percent") /\ change < 0 - 200 THEN "bearish"
                           ELSE "neutral"
    IN  Return([trend_direction |-> trend_direction,
                confidence_score |-> 5,
                key_factors |-> <<"Price movement analysis">>,
                analysis_method |-> "trend_based_fallback"])

\* ------------------------------------------------------------ initialize
\* What initialize() leaves in self.models and self.model_status. A status
\* dict has no 'last_trained' key until train_model sets it: None.
NewModels == (FH :> FinancialHealthModel) @@ (BV :> BusinessValuationModel) @@ (MT :> MarketTrendModel)

NewStatusActiveIfTrained ==
    [name \in Domains |-> [initialized |-> NewModels[name].is_trained,
                           trained |-> NewModels[name].is_trained,
                           last_used |-> None,
                           last_trained |-> None]]

NewStatus == [name \in Domains |-> [initialized |-> TRUE,
                                     trained |-> NewModels[name].is_trained,
                                     last_used |-> None,
                                     last_trained |-> None]]

\* "if not self.initialized: await self.initialize()" at the head of every
\* public method: the registry the rest of the method works on.
EnsuredModels == IF initialized THEN models ELSE NewModels

EnsuredStatusWithoutServices ==
    IF initialized THEN model_status
    ELSE [name \in Domains |-> [initialized |-> FALSE, trained |-> FALSE,
                                last_used |-> None, last_trained |-> None]]

EnsuredStatus == IF initialized THEN model_status ELSE NewStatus

\* ------------------------------------------------- single-domain queries
\* Each query is given the registry (M, S) and the value t the clock has if
\* the query reads it. It answers
\*   outcome   what the caller gets (a returned dict, or an escaped exception);
\*   status    self.model_status after the call;
\*   predicted whether the service's predict method was invoked;
\*   clock     whether the clock was read.
\* An exception raised inside the try block, the untrained path's fallback
\* included, reaches the except clause, which computes the fallback again
\* outside any handler.
SetLastUsedAllDomains(S, name, t) == [d \in DOMAIN S |-> [S[d] EXCEPT !.last_used = t]]

SetLastUsedNever(S, name, t) == S

\* self.model_status[name]['last_used'] = asyncio.get_event_loop().time()
SetLastUsed(S, name, t) == [S EXCEPT ![name].last_used = t]

QueryAnswer(outcome, status, predicted, clock) ==
    [outcome |-> outcome, status |-> status, predicted |-> predicted, clock |-> clock]

ConfidenceLow(model) == "low"

Confidence(model) == IF model.is_trained THEN "high" ELSE "low"

analyze_financial_health(company_data, M, S, t) ==
    LET model == M[FH]
        fallback == default_financial_health_analysis(company_data)
        result == predict_health(model, company_data)
    IN  IF ~model.is_trained
        THEN QueryAnswer(fallback, S, FALSE, FALSE)
        ELSE IF Returned(result)
        THEN QueryAnswer(Return([success |-> TRUE,
                                 analysis |-> result.value,
                                 model_used |-> FH,
                                 confidence |-> Confidence(model)]),
                         SetLastUsed(S, FH, t), TRUE, TRUE)
        ELSE IF Returned(fallback)
        THEN QueryAnswer(Return([success |-> FALSE,
                                 error |-> result.error,
                                 fallback_analysis |-> fallback.value]),
                         S, TRUE, FALSE)
        ELSE QueryAnswer(fallback, S, TRUE, FALSE)

estimate_business_valuation(company_data, M, S, t) ==
    LET model == M[BV]
        fallback == default_business_valuation(company_data)
        result == predict_valuation(model, company_data)
    IN  IF ~model.is_trained
        THEN QueryAnswer(fallback, S, FALSE, FALSE)
        ELSE IF Returned(result)
        THEN QueryAnswer(Return([success |-> TRUE,
                                 valuation |-> result.value,
                                 model_used |-> BV,
                                 confidence |-> Confidence(model)]),
                         SetLastUsed(S, BV, t), TRUE, TRUE)
        ELSE IF Returned(fallback)
        THEN QueryAnswer(Return([success |-> FALSE,
                                 error |-> result.error,
                                 fallback_valuation |-> fallback.value]),
                         S, TRUE, FALSE)
        ELSE QueryAnswer(fallback, S, TRUE, FALSE)

analyze_market_trends(market_data, M, S, t) ==
    LET model == M[MT]
        fallback == default_market_trend_analysis(market_data)
        result == predict_market_trends(model, market_data)
    IN  IF ~model.is_trained
        THEN QueryAnswer(fallback, S, FALSE, FALSE)
        ELSE IF Returned(result)
        THEN QueryAnswer(Return([success |-> TRUE,
                                 analysis |-> result.value,
                                 model_used |-> MT,
                                 confidence |-> Confidence(model)]),
                         SetLastUsed(S, MT, t), TRUE, TRUE)
        ELSE IF Returned(fallback)
        THEN QueryAnswer(Return([success |-> FALSE,
                                 error |-> result.error,
                                 fallback_analysis |-> fallback.value]),
                         S, TRUE, FALSE)
        ELSE QueryAnswer(fallback, S, TRUE, FALSE)

\* ------------------------------------------------ comprehensive_analysis
\* The dict key f'analysis_{i}' as its two words; "word in analysis_name"
\* is the substring test of the helper methods on these keys.
AnalysisKeyOneBased(i) == <<"analysis", ToString(i + 1)>>

AnalysisKey(i) == <<"analysis", ToString(i)>>

InName(word, analysis_name) == \E j \in DOMAIN analysis_name : analysis_name[j] = word

ComprehensiveTasksNoMarket(market_data) == <<FH, BV>>

\* tasks: health and valuation always, market trends if market_data is truthy.
ComprehensiveTasks(market_data) == IF Truthy(market_data) THEN <<FH, BV, MT>> ELSE <<FH, BV>>

CollectedWithPayload(outcome) ==
    IF Returned(outcome) THEN outcome.value ELSE [success |-> FALSE, analysis |-> PyNone]

CollectedAborts(outcome) ==
    IF Returned(outcome) THEN outcome.value ELSE [success |-> FALSE]

\* One entry of analysis_results: the task's dict, or the fan-in's record of
\* the exception gather() returned in its place.
Collected(outcome) ==
    IF Returned(outcome) THEN outcome.value
    ELSE [success |-> FALSE, error |-> outcome.error]

\* result.get('success'): the key may be absent.
Succeeded(result) == "success" \in DOMAIN result /\ result.success

\* analysis_results as the sequence of its items() in insertion order.
AnalysisResults(results) ==
    [i \in DOMAIN results |-> [name |-> AnalysisKey(i - 1), result |-> Collected(results[i])]]

SeqIf(cond, x) == IF cond THEN <<x>> ELSE <<>>

InsightsOf(item) ==
    LET result == item.result
        health == Succeeded(result) /\ InName(FH, item.name) /\ "analysis" \in DOMAIN result
        value == Succeeded(result) /\ InName(BV, item.name) /\ "valuation" \in DOMAIN result
        trend == Succeeded(result) /\ InName(MT, item.name) /\ "analysis" \in DOMAIN result
    IN  SeqIf(health /\ result.analysis.health_score > 80,
              "Company shows excellent financial health with strong fundamentals")
        \o SeqIf(health /\ ~(result.analysis.health_score > 80) /\ result.analysis.health_score < 40,
              "Company faces significant financial challenges requiring immediate attention")
        \o SeqIf(value /\ result.valuation.valuation > 10000000,
              "High company valuation indicates strong market position and growth potential")
        \o SeqIf(trend /\ result.analysis.trend_direction = "bullish",
              "Positive market trends suggest favorable conditions for growth")

\* The lists appended in the order of the loop over analysis_results.items().
RECURSIVE Concat(_)
Concat(lists) ==
    IF lists = <<>> THEN <<>> ELSE Head(lists) \o Concat(Tail(lists))

generate_comprehensive_insights(analysis_results) ==
    LET insights == Concat([i \in DOMAIN analysis_results |-> InsightsOf(analysis_results[i])])
    IN  IF insights # <<>> THEN insights ELSE <<"Analysis completed successfully">>

generate_analysis_summary(analysis_results) ==
    LET successful_analyses == Cardinality({i \in DOMAIN analysis_results :
                                              Succeeded(analysis_results[i].result)})
        total_analyses == Len(analysis_results)
    IN  IF successful_analyses = total_analyses
        THEN [template |-> "All {total} analyses completed successfully with high confidence",
              successful |-> successful_analyses, total |-> total_analyses]
        ELSE IF successful_analyses > 0
        THEN [template |-> "{successful} out of {total} analyses completed successfully",
              successful |-> successful_analyses, total |-> total_analyses]
        ELSE [template |-> "Analysis completed with fallback methods due to model unavailability",
              successful |-> successful_analyses, total |-> total_analyses]

Recommendation(category, action, priority, timeline) ==
    [category |-> category, action |-> action, priority |-> priority, timeline |-> timeline]

RecommendationsOf(item) ==
    LET result == item.result
        health == Succeeded(result) /\ InName(FH, item.name) /\ "analysis" \in DOMAIN result
        value == Succeeded(result) /\ InName(BV, item.name) /\ "valuation" \in DOMAIN result
    IN  SeqIf(health /\ result.analysis.health_score < 50,
              Recommendation("Financial Health",
                             "Implement cost reduction and revenue optimization strategies",
                             "High", "Immediate"))
        \o SeqIf(value /\ result.valuation.valuation < 5000000,
              Recommendation("Valuation",
                             "Focus on growth initiatives to increase company value",
                             "Medium", "3-6 months"))

generate_recommendations(analysis_results) ==
    LET recommendations == Concat([i \in DOMAIN analysis_results |->
                                       RecommendationsOf(analysis_results[i])])
    IN  IF recommendations # <<>> THEN recommendations
        ELSE <<Recommendation("General", "Continue monitoring key financial metrics",
                              "Low", "Ongoing")>>

\* The report built after the fan-in from the gathered results.
ComprehensiveReport(results) ==
    LET analysis_results == AnalysisResults(results)
    IN  [success |-> TRUE,
         comprehensive_analysis |-> analysis_results,
         insights |-> generate_comprehensive_insights(analysis_results),
         summary |-> generate_analysis_summary(analysis_results),
         recommendations |-> generate_recommendations(analysis_results)]

\* The query a task of the fan-out runs.
TaskAnswer(domain, company_data, market_data, M, S, t) ==
    IF domain = FH THEN analyze_financial_health(company_data, M, S, t)
    ELSE IF domain = BV THEN estimate_business_valuation(company_data, M, S, t)
    ELSE analyze_market_trends(market_data, M, S, t)

\* ------------------------------------------------------------ train_model
\* Every model class defines train.
hasattr_train(model_name) == model_name \in Domains

ServiceTrain(model_name, model, training_data) ==
    IF model_name = FH THEN FinancialHealthModel_train(model, training_data)
    ELSE IF model_name = BV THEN BusinessValuationModel_train(model, training_data)
    ELSE MarketTrendModel_train(model, training_data)

SetTrainedFreshRecord(S, name, t) ==
    [S EXCEPT ![name] = [initialized |-> TRUE, trained |-> TRUE,
                         last_used |-> None, last_trained |-> t]]

SetTrainedNoTimestamp(S, name, t) == [S EXCEPT ![name].trained = TRUE]

\* self.model_status[name]['trained'] = True; ['last_trained'] = loop time
SetTrained(S, name, t) == [S EXCEPT ![name].trained = TRUE, ![name].last_trained = t]

\* Answers outcome, the registry after the call (models, status) and whether
\* the clock was read.
\* "model_name in self.models", and the message when it is not.
Registered(model_name, M) == model_name \in DOMAIN M

ModelNotFoundSupportsNoTraining(model_name) == "Model " \o model_name \o " does not support training"

ModelNotFound(model_name) == "Model " \o model_name \o " not found"

train_model(model_name, training_data, M, S, t) ==
    IF ~Registered(model_name, M)
    THEN [outcome |-> Return([success |-> FALSE, error |-> ModelNotFound(model_name)]),
          models |-> M, status |-> S, clock |-> FALSE]
    ELSE IF ~hasattr_train(model_name)
    THEN [outcome |-> Return([success |-> FALSE, error |-> "Model does not support training"]),
          models |-> M, status |-> S, clock |-> FALSE]
    ELSE LET trained == ServiceTrain(model_name, M[model_name], training_data)
             M2 == [M EXCEPT ![model_name] = trained.model]
         IN  IF Returned(trained.outcome)
             THEN [outcome |-> Return([success |-> TRUE,
                                       model |-> model_name,
                                       training_result |-> trained.outcome.value,
                                       status |-> "trained"]),
                   models |-> M2,
                   status |-> SetTrained(S, model_name, t),
                   clock |-> TRUE]
             ELSE [outcome |-> Return([success |-> FALSE, error |-> trained.outcome.error]),
                   models |-> M2, status |-> S, clock |-> FALSE]

\* ------------------------------------------------- get_model_performance
get_feature_importance(model_name, model) ==
    IF model_name = FH THEN health_get_feature_importance(model)
    ELSE IF model_name = BV THEN valuation_get_feature_importance(model)
    ELSE market_get_feature_importance(model)

\* type(model).__name__
ClassName(model_name) ==
    IF model_name = FH THEN "FinancialHealthModel"
    ELSE IF model_name = BV THEN "BusinessValuationModel"
    ELSE "MarketTrendModel"

get_model_capabilities(model_name) ==
    [supports_training |-> TRUE, supports_prediction |-> TRUE,
     supports_feature_importance |-> TRUE, model_type |-> ClassName(model_name)]

get_model_performance(model_name, M, S) ==
    IF ~Registered(model_name, M)
    THEN Return([success |-> FALSE, error |-> ModelNotFound(model_name)])
    ELSE LET feature_importance == get_feature_importance(model_name, M[model_name])
         IN  IF Returned(feature_importance)
             THEN Return([success |-> TRUE,
                          model |-> model_name,
                          status |-> S[model_name],
                          feature_importance |-> feature_importance.value,
                          capabilities |-> get_model_capabilities(model_name)])
             ELSE Return([success |-> FALSE, error |-> feature_importance.error])

get_model_status(M, S) ==
    Return([orchestrator_status |-> "running",
            models |-> S,
            total_models |-> Cardinality(DOMAIN M),
            active_models |-> Cardinality({name \in DOMAIN S : S[name].initialized})])

\* ---------------------------------------------------------------- state
\* last: the step just taken (op), its arguments (name, data, market), what
\* it handed back (outcome), whether a predict method ran (predicted) and
\* the clock before the step (t0).
Step(op, name, data, market, outcome, predicted) ==
    [op |-> op, name |-> name, data |-> data, market |-> market,
     outcome |-> outcome, predicted |-> predicted, t0 |-> now]

Idle == [running |-> FALSE, company_data |-> PyNone, market_data |-> PyNone,
         tasks |-> <<>>, results |-> <<>>]

Init ==
    /\ initialized = FALSE
    /\ models = <<>>
    /\ model_status = <<>>
    /\ now = 0
    /\ comp = Idle
    /\ last = [op |-> "__init__", name |-> "", data |-> PyNone, market |-> PyNone,
               outcome |-> Return(PyNone), predicted |-> FALSE, t0 |-> 0]

\* The clock is read by now' = now + 1; a step that reads it needs a tick left.
ReadsClock(clock) ==
    /\ clock => now < MaxTime
    /\ now' = IF clock THEN now + 1 ELSE now

Initialize ==
    /\ initialized' = TRUE
    /\ models' = NewModels
    /\ model_status' = NewStatus
    /\ last' = Step("initialize", "", PyNone, PyNone, Return(PyNone), FALSE)
    /\ UNCHANGED <<now, comp>>

GetModelStatus ==
    /\ initialized' = TRUE
    /\ models' = EnsuredModels
    /\ model_status' = EnsuredStatus
    /\ last' = Step("get_model_status", "", PyNone, PyNone,
                    get_model_status(EnsuredModels, EnsuredStatus), FALSE)
    /\ UNCHANGED <<now, comp>>

Query(op, name, data, answer) ==
    /\ ReadsClock(answer.clock)
    /\ initialized' = TRUE
    /\ models' = EnsuredModels
    /\ model_status' = answer.status
    /\ last' = Step(op, name, data, PyNone, answer.outcome, answer.predicted)
    /\ UNCHANGED comp

AnalyzeFinancialHealth(company_data) ==
    Query("analyze_financial_health", FH, company_data,
          analyze_financial_health(company_data, EnsuredModels, EnsuredStatus, now + 1))

EstimateBusinessValuation(company_data) ==
    Query("estimate_business_valuation", BV, company_data,
          estimate_business_valuation(company_data, EnsuredModels, EnsuredStatus, now + 1))

AnalyzeMarketTrends(market_data) ==
    Query("analyze_market_trends", MT, market_data,
          analyze_market_trends(market_data, EnsuredModels, EnsuredStatus, now + 1))

\* comprehensive_analysis up to "await asyncio.gather(...)": the tasks exist
\* and none has run.
ComprehensiveDispatch(company_data, market_data) ==
    /\ ~comp.running
    /\ initialized' = TRUE
    /\ models' = EnsuredModels
    /\ model_status' = EnsuredStatus
    /\ comp' = [running |-> TRUE, company_data |-> company_data, market_data |-> market_data,
                tasks |-> ComprehensiveTasks(market_data), results |-> <<>>]
    /\ last' = Step("comprehensive_dispatch", "", company_data, market_data, Return(PyNone), FALSE)
    /\ UNCHANGED now

\* The event loop runs the next task of the gather to its end.
ComprehensiveTask ==
    /\ comp.running
    /\ Len(comp.results) < Len(comp.tasks)
    /\ LET domain == comp.tasks[Len(comp.results) + 1]
           answer == TaskAnswer(domain, comp.company_data, comp.market_data,
                                models, model_status, now + 1)
       IN  /\ ReadsClock(answer.clock)
           /\ model_status' = answer.status
           /\ comp' = [comp EXCEPT !.results = Append(@, answer.outcome)]
           /\ last' = Step("comprehensive_task", domain,
                           IF domain = MT THEN comp.market_data ELSE comp.company_data,
                           PyNone, answer.outcome, answer.predicted)
    /\ UNCHANGED <<initialized, models>>

\* The fan-in: every task has finished; the report is built and returned.
ComprehensiveReturn ==
    /\ comp.running
    /\ Len(comp.results) = Len(comp.tasks)
    /\ last' = Step("comprehensive_analysis", "", comp.company_data, comp.market_data,
                    Return(ComprehensiveReport(comp.results)), FALSE)
    /\ comp' = Idle
    /\ UNCHANGED <<initialized, models, model_status, now>>

TrainModel(model_name, training_data) ==
    LET answer == train_model(model_name, training_data, EnsuredModels, EnsuredStatus, now + 1)
    IN  /\ ReadsClock(answer.clock)
        /\ initialized' = TRUE
        /\ models' = answer.models
        /\ model_status' = answer.status
        /\ last' = Step("train_model", model_name, training_data, PyNone, answer.outcome, FALSE)
        /\ UNCHANGED comp

GetModelPerformance(model_name) ==
    /\ initialized' = TRUE
    /\ models' = EnsuredModels
    /\ model_status' = EnsuredStatus
    /\ last' = Step("get_model_performance", model_name, PyNone, PyNone,
                    get_model_performance(model_name, EnsuredModels, EnsuredStatus), FALSE)
    /\ UNCHANGED <<now, comp>>

Next ==
    \/ Initialize
    \/ GetModelStatus
    \/ \E company_data \in CompanyInputs : AnalyzeFinancialHealth(company_data)
    \/ \E company_data \in CompanyInputs : EstimateBusinessValuation(company_data)
    \/ \E market_data \in MarketInputs : AnalyzeMarketTrends(market_data)
    \/ \E input \in ComprehensiveInputs : ComprehensiveDispatch(input[1], input[2])
    \/ ComprehensiveTask
    \/ ComprehensiveReturn
    \/ \E call \in TrainCalls : TrainModel(call[1], call[2])
    \/ \E model_name \in ModelNames : GetModelPerformance(model_name)

Spec == Init /\ [][Next]_vars

\* An orchestrator that is only queried, never trained: every query takes
\* the untrained path and answers with the rule-based fallback of its input.
FallbackNext ==
    \/ \E company_data \in CompanyGrid : AnalyzeFinancialHealth(company_data)
    \/ \E company_data \in CompanyGrid : EstimateBusinessValuation(company_data)
    \/ \E market_data \in MarketGrid : AnalyzeMarketTrends(market_data)

FallbackSpec == Init /\ [][FallbackNext]_vars

\* ================================================================ claims
\* The steps that run a single-domain query: the three public methods, and
\* the same methods run as a task of comprehensive_analysis.
QueryOps == {"analyze_financial_health", "estimate_business_valuation",
             "analyze_market_trends", "comprehensive_task"}

QueryOn(d) == last.op \in QueryOps /\ last.name = d

\* d[k] == v for a dict d in which the key k may be absent.
KeyIs(d, k, v) == k \in DOMAIN d /\ d[k] = v

ServicePredict(d, model, data) ==
    IF d = FH THEN predict_health(model, data)
    ELSE IF d = BV THEN predict_valuation(model, data)
    ELSE predict_market_trends(model, data)

Fallback(d, data) ==
    IF d = FH THEN default_financial_health_analysis(data)
    ELSE IF d = BV THEN default_business_valuation(data)
    ELSE default_market_trend_analysis(data)

PayloadKey(d) == IF d = BV THEN "valuation" ELSE "analysis"

FallbackKey(d) == IF d = BV THEN "fallback_valuation" ELSE "fallback_analysis"

\* The query just run called predict and predict raised.
PredictRaised(d) ==
    QueryOn(d) /\ last.predicted /\ ~Returned(ServicePredict(d, models[d], last.data))

\* The query just run called predict and predict returned.
PredictReturned(d) ==
    QueryOn(d) /\ last.predicted /\ Returned(ServicePredict(d, models[d], last.data))

\* C1: a query on a domain whose status says untrained returns a dict with
\* success = true, the method rule_based_fallback and confidence = "low".
\* (The code returns the bare fallback payload: no success key, no
\* confidence key.)
C1_UntrainedQueryIsLowConfidenceSuccess ==
    \A d \in Domains :
        (QueryOn(d) /\ ~model_status[d].trained) =>
            /\ Returned(last.outcome)
            /\ KeyIs(last.outcome.value, "success", TRUE)
            /\ KeyIs(last.outcome.value, "analysis_method", "rule_based_fallback")
            /\ KeyIs(last.outcome.value, "confidence", "low")

\* C2: a query on a domain whose status says untrained never invokes the
\* service's predict method.
C2_UntrainedQueryNeverPredicts ==
    \A d \in Domains :
        (QueryOn(d) /\ ~model_status[d].trained) => ~last.predicted

\* C3: when the service's predict call returns, the query returns
\* success = true with confidence "high", model_used = d and the predicted
\* payload, and last_used of d is a timestamp not before the clock at the
\* start of the call.
C3_ModelPathResult ==
    \A d \in Domains :
        PredictReturned(d) =>
            /\ Returned(last.outcome)
            /\ KeyIs(last.outcome.value, "success", TRUE)
            /\ KeyIs(last.outcome.value, "confidence", "high")
            /\ KeyIs(last.outcome.value, "model_used", d)
            /\ KeyIs(last.outcome.value, PayloadKey(d),
                     ServicePredict(d, models[d], last.data).value)
            /\ model_status[d].last_used # None
            /\ model_status[d].last_used >= last.t0

C3_Witness ==
    /\ PredictReturned(FH)
    /\ KeyIs(last.outcome.value, "success", TRUE)
    /\ model_status[FH].last_used = now

\* C4: when the service's predict call raises, the query returns
\* success = false with a non-empty error and the fallback payload the
\* untrained path would return for the same input.
C4_PredictFaultAttachesFallback ==
    \A d \in Domains :
        PredictRaised(d) =>
            /\ Returned(last.outcome)
            /\ KeyIs(last.outcome.value, "success", FALSE)
            /\ "error" \in DOMAIN last.outcome.value
            /\ last.outcome.value.error # ""
            /\ Returned(Fallback(d, last.data))
            /\ KeyIs(last.outcome.value, FallbackKey(d), Fallback(d, last.data).value)

\* C5: every operation hands its caller a structured result; no exception
\* escapes, whatever the input and the model state.
C5_NoExceptionEscapes == Returned(last.outcome)

\* C6 as claimed: the report has 2 per-domain results when no market input
\* is supplied and 3 whenever one is supplied, the empty mapping included.
C6_ThreeResultsForAnySuppliedMarket ==
    last.op = "comprehensive_analysis" =>
        Len(last.outcome.value.comprehensive_analysis)
            = IF last.market = PyNone THEN 2 ELSE 3

\* C6 amended: the report has 3 per-domain results when a non-empty market
\* input is supplied, and 2 when the market input is absent or empty.
C6_ResultCount ==
    last.op = "comprehensive_analysis" =>
        Len(last.outcome.value.comprehensive_analysis)
            = IF IsDict(last.market) /\ DOMAIN last.market.items # {} THEN 3 ELSE 2

C6_Witness ==
    /\ last.op = "comprehensive_analysis"
    /\ last.market = RisingMarket
    /\ Len(last.outcome.value.comprehensive_analysis) = 3

\* C7: at the fan-in every dispatched task has an entry under the key of its
\* position; a task that raised is recorded as {success: false, error:
\* message}, every other entry is the dict its task returned, and the call
\* returns its report with success = true. A task run after a sibling has
\* raised gives what the lone query gives in the same registry.
C7_FaultIsolated ==
    [][/\ last'.op = "comprehensive_analysis" =>
            /\ Returned(last'.outcome)
            /\ last'.outcome.value.success
            /\ Len(last'.outcome.value.comprehensive_analysis) = Len(comp.tasks)
            /\ \A i \in DOMAIN comp.tasks :
                 LET entry == last'.outcome.value.comprehensive_analysis[i]
                 IN  /\ entry.name = AnalysisKey(i - 1)
                     /\ IF Returned(comp.results[i])
                        THEN entry.result = comp.results[i].value
                        ELSE entry.result = [success |-> FALSE, error |-> comp.results[i].error]
       /\ (/\ last'.op = "comprehensive_task"
           /\ \E i \in DOMAIN comp.results : ~Returned(comp.results[i])) =>
            /\ last'.name = MT =>
                 last'.outcome = analyze_market_trends(comp.market_data, models,
                                                       model_status, now + 1).outcome
            /\ last'.name = BV =>
                 last'.outcome = estimate_business_valuation(comp.company_data, models,
                                                             model_status, now + 1).outcome
      ]_vars

C7_Witness ==
    /\ last.op = "comprehensive_analysis"
    /\ Len(last.outcome.value.comprehensive_analysis) = 3
    /\ KeyIs(last.outcome.value.comprehensive_analysis[1].result, "success", FALSE)
    /\ "error" \in DOMAIN last.outcome.value.comprehensive_analysis[1].result
    /\ KeyIs(last.outcome.value.comprehensive_analysis[3].result, "trend_direction", "bullish")

\* C8: a train_model call that succeeds leaves trained = true and a
\* last_trained that is set and not earlier than the one before the call.
C8_TrainingTransition ==
    [][(/\ last'.op = "train_model"
        /\ KeyIs(last'.outcome.value, "success", TRUE)) =>
            /\ model_status'[last'.name].trained
            /\ model_status'[last'.name].last_trained # None
            /\ model_status'[last'.name].last_trained >= EnsuredStatus[last'.name].last_trained
      ]_vars

C8_Witness ==
    /\ last.op = "train_model"
    /\ KeyIs(last.outcome.value, "success", TRUE)
    /\ last.t0 > 0
    /\ model_status[last.name].trained
    /\ model_status[last.name].last_trained = now

\* C9: a train_model call that fails on a registered model leaves the
\* status' trained and last_trained and the service's own is_trained as they
\* were before the call.
C9_FailedTrainingChangesNothing ==
    [][(/\ last'.op = "train_model"
        /\ last'.name \in Domains
        /\ KeyIs(last'.outcome.value, "success", FALSE)) =>
            /\ model_status'[last'.name].trained = EnsuredStatus[last'.name].trained
            /\ model_status'[last'.name].last_trained = EnsuredStatus[last'.name].last_trained
            /\ models'[last'.name].is_trained = EnsuredModels[last'.name].is_trained
      ]_vars

\* C10: no operation, initialize included, takes the trained flag of a
\* domain from true back to false.
C10_TrainedNeverRegresses ==
    [][\A d \in Domains :
         (initialized /\ model_status[d].trained) => model_status'[d].trained]_vars

\* The read-only operations, and the operations the claims call a train or
\* a query call.
ReadOps == {"get_model_status", "get_model_performance"}

MutatingOps == QueryOps \cup {"train_model"}

\* C11: a get_model_status / get_model_performance call changes no state of
\* an initialized orchestrator, get_model_status returns the status table as
\* it stands, and no step other than a train_model or query call changes
\* what the next read returns: reads with no train or query call in between
\* return identical status snapshots. (A second initialize() between two
\* reads resets the table.)
C11_ReadsAreIdempotent ==
    [][/\ last'.op \in ReadOps =>
            /\ models' = EnsuredModels
            /\ model_status' = EnsuredStatus
            /\ now' = now
            /\ comp' = comp
       /\ last'.op = "get_model_status" =>
            last'.outcome.value.models = EnsuredStatus
       /\ last'.op \notin MutatingOps =>
            /\ EnsuredStatus' = EnsuredStatus
            /\ EnsuredModels' = EnsuredModels
      ]_vars

\* C12: get_model_performance on a registered model returns success with
\* the model's status and capability flags whether or not it is trained;
\* the feature importance is absent, and no error, when it is untrained.
\* (FinancialHealthModel.get_feature_importance raises when untrained.)
C12_PerformanceOfRegisteredModel ==
    (last.op = "get_model_performance" /\ last.name \in Domains) =>
        /\ Returned(last.outcome)
        /\ KeyIs(last.outcome.value, "success", TRUE)
        /\ KeyIs(last.outcome.value, "status", model_status[last.name])
        /\ "capabilities" \in DOMAIN last.outcome.value
        /\ ~model_status[last.name].trained =>
              last.outcome.value.feature_importance \in {"None", "empty"}

\* C13: train_model and get_model_performance with a name that is not in
\* the registry return {success: false, error: 'Model <name> not found'}
\* and leave every service, every status, the clock and a comprehensive
\* call in flight as they were, so that any later call finds the registry
\* it would have found without the failed call.
C13_UnknownModelIsLocal ==
    [][(last'.op \in {"train_model", "get_model_performance"} /\ last'.name \notin Domains) =>
            /\ last'.outcome
                 = Return([success |-> FALSE, error |-> "Model " \o last'.name \o " not found"])
            /\ models' = EnsuredModels
            /\ model_status' = EnsuredStatus
            /\ EnsuredModels' = EnsuredModels
            /\ EnsuredStatus' = EnsuredStatus
            /\ now' = now
            /\ comp' = comp
      ]_vars

C13_Witness ==
    /\ last.op = "train_model"
    /\ last.name \notin Domains
    /\ KeyIs(last.outcome.value, "success", FALSE)
    /\ last.outcome.value.error = "Model unknown_model not found"
    /\ \E d \in Domains : model_status[d].trained /\ model_status[d].last_trained = now

\* The rules of the fallbacks as the specification words them, on the items
\* of the input dict: an absent amount counts as 0 (health) or as the stated
\* default (valuation).
Amount(data, k, default) == IF k \in DOMAIN data.items THEN data.items[k] ELSE default

\* net_income / revenue > percent / 100, the margin being 0 unless revenue > 0.
MarginAbove(data, percent) ==
    /\ Amount(data, "revenue", 0) > 0
    /\ 100 * Amount(data, "net_income", 0) > percent * Amount(data, "revenue", 0)

\* liabilities / assets < percent / 100, the ratio being 0 unless assets > 0.
DebtBelow(data, percent) ==
    \/ ~(Amount(data, "total_assets", 0) > 0)
    \/ 100 * Amount(data, "total_liabilities", 0) < percent * Amount(data, "total_assets", 0)

Clamp(x, lo, hi) == IF x < lo THEN lo ELSE IF x > hi THEN hi ELSE x

HealthRule(data) ==
    Clamp(50 + (IF MarginAbove(data, 15) THEN 20 ELSE IF MarginAbove(data, 5) THEN 10 ELSE 0)
             + (IF DebtBelow(data, 50) THEN 20 ELSE IF DebtBelow(data, 70) THEN 10 ELSE 0)
             + (IF Amount(data, "revenue", 0) > 1000000 THEN 10 ELSE 0),
          0, 100)

\* C14: the financial-health fallback of every dict input has the score of
\* the additive rule (50, +20 / +10 by margin, +20 / +10 by debt ratio, +10
\* for revenue over 1,000,000, clamped to 0..100), risk_score 100 - score
\* and the category Good over 60, Fair over 40, Poor otherwise.
C14_HealthFallbackRule ==
    (last.op = "analyze_financial_health" /\ IsDict(last.data)) =>
        /\ Returned(last.outcome)
        /\ last.outcome.value.health_score = HealthRule(last.data)
        /\ last.outcome.value.risk_score = 100 - HealthRule(last.data)
        /\ last.outcome.value.health_category
             = IF HealthRule(last.data) > 60 THEN "Good"
               ELSE IF HealthRule(last.data) > 40 THEN "Fair" ELSE "Poor"

\* The example of the claim.
C14_Witness ==
    /\ last.op = "analyze_financial_health"
    /\ last.data = Dict([revenue |-> 2000000, net_income |-> 400000,
                         total_assets |-> 1000000, total_liabilities |-> 400000])
    /\ last.outcome.value.health_score = 100
    /\ last.outcome.value.health_category = "Good"
    /\ last.outcome.value.risk_score = 0

ValuationRule(data) ==
    LET revenue_based == Amount(data, "revenue", 1000000) * 2
        profit_based == Amount(data, "net_income", 100000) * 15
    IN  IF revenue_based >= profit_based THEN revenue_based ELSE profit_based

ValuationFollowsRule ==
    /\ Returned(last.outcome)
    /\ last.outcome.value.valuation = ValuationRule(last.data)
    /\ 10 * last.outcome.value.valuation_range.min = 8 * ValuationRule(last.data)
    /\ 10 * last.outcome.value.valuation_range.max = 12 * ValuationRule(last.data)

\* C15 as claimed: the valuation fallback of every dict input is
\* max(revenue * 2, net_income * 15) with the defaults 1,000,000 and
\* 100,000, its range is [0.8, 1.2] times the valuation, and
\* range.min <= valuation <= range.max.
C15_ValuationWithinRange ==
    (last.op = "estimate_business_valuation" /\ IsDict(last.data)) =>
        /\ ValuationFollowsRule
        /\ last.outcome.value.valuation_range.min <= last.outcome.value.valuation
        /\ last.outcome.value.valuation <= last.outcome.value.valuation_range.max

\* C15 amended: the valuation and its range follow the rule for every dict
\* input; range.min <= valuation <= range.max when the valuation is not
\* negative, and range.max <= valuation <= range.min when it is (revenue
\* and net_income both negative).
C15_ValuationFallbackRule ==
    (last.op = "estimate_business_valuation" /\ IsDict(last.data)) =>
        /\ ValuationFollowsRule
        /\ last.outcome.value.valuation >= 0 =>
              /\ last.outcome.value.valuation_range.min <= last.outcome.value.valuation
              /\ last.outcome.value.valuation <= last.outcome.value.valuation_range.max
        /\ last.outcome.value.valuation < 0 =>
              /\ last.outcome.value.valuation_range.max < last.outcome.value.valuation
              /\ last.outcome.value.valuation < last.outcome.value.valuation_range.min

\* The example of the claim: no field supplied.
C15_Witness ==
    /\ last.op = "estimate_business_valuation"
    /\ last.data = Dict(EmptyItems)
    /\ last.outcome.value.valuation = 2000000
    /\ last.outcome.value.valuation_range = [min |-> 1600000, max |-> 2400000]

\* C16: the market-trend fallback of every dict input is bullish when
\* price_change_percent > 0.02, bearish when it is < -0.02 and neutral
\* otherwise (0.02, -0.02 and an absent key included), with confidence 0.5
\* and the one fixed key factor.
C16_TrendFallbackRule ==
    (last.op = "analyze_market_trends" /\ IsDict(last.data)) =>
        /\ Returned(last.outcome)
        /\ last.outcome.value.trend_direction
             = IF "price_change_percent" \notin DOMAIN last.data.items THEN "neutral"
               ELSE IF last.data.items["price_change_percent"] > 200 THEN "bullish"
               ELSE IF last.data.items["price_change_percent"] < 0 - 200 THEN "bearish"
               ELSE "neutral"
        /\ last.outcome.value.confidence_score = 5
        /\ last.outcome.value.key_factors = <<"Price movement analysis">>

C16_Witness ==
    /\ last.op = "analyze_market_trends"
    /\ last.data = Dict([price_change_percent |-> 0 - 201])
    /\ last.outcome.value.trend_direction = "bearish"
    /\ last.outcome.value.confidence_score = 5

\* The report just returned by comprehensive_analysis, and its per-domain
\* entries in dispatch order: health, valuation, market trends.
Report == last.outcome.value

Entry(i) == Report.comprehensive_analysis[i].result

InSeq(x, seq) == \E j \in DOMAIN seq : seq[j] = x

\* The i-th sub-analysis succeeded on the model path and carries a payload.
ModelResult(i, key) ==
    /\ i \in DOMAIN Report.comprehensive_analysis
    /\ KeyIs(Entry(i), "success", TRUE)
    /\ key \in DOMAIN Entry(i)

\* C17: the insights of the report follow the threshold rules on the
\* successful per-domain results: health_score > 80 gives the
\* excellent-health insight, health_score < 40 the significant-challenges
\* insight, valuation > 10,000,000 the strong-market-position insight and a
\* bullish trend the favorable-conditions insight. (The results are keyed
\* analysis_0, analysis_1, ...: no key contains a domain name and no rule
\* fires.)
C17_InsightsFollowThresholds ==
    last.op = "comprehensive_analysis" =>
        /\ (ModelResult(1, "analysis") /\ Entry(1).analysis.health_score > 80) =>
              InSeq("Company shows excellent financial health with strong fundamentals",
                    Report.insights)
        /\ (ModelResult(1, "analysis") /\ Entry(1).analysis.health_score < 40) =>
              InSeq("Company faces significant financial challenges requiring immediate attention",
                    Report.insights)
        /\ (ModelResult(2, "valuation") /\ Entry(2).valuation.valuation > 10000000) =>
              InSeq("High company valuation indicates strong market position and growth potential",
                    Report.insights)
        /\ (ModelResult(3, "analysis") /\ Entry(3).analysis.trend_direction = "bullish") =>
              InSeq("Positive market trends suggest favorable conditions for growth",
                    Report.insights)

HealthRecommendation ==
    [category |-> "Financial Health",
     action |-> "Implement cost reduction and revenue optimization strategies",
     priority |-> "High", timeline |-> "Immediate"]

ValuationRecommendation ==
    [category |-> "Valuation",
     action |-> "Focus on growth initiatives to increase company value",
     priority |-> "Medium", timeline |-> "3-6 months"]

\* C18: a successful health result with health_score < 50 gives the
\* high-priority immediate Financial Health recommendation, a successful
\* valuation result with valuation < 5,000,000 the medium-priority 3-6
\* months Valuation recommendation, the health one first when both fire.
\* (As for C17, no rule fires on the keys analysis_i.)
C18_RecommendationsFollowThresholds ==
    last.op = "comprehensive_analysis" =>
        LET health == ModelResult(1, "analysis") /\ Entry(1).analysis.health_score < 50
            value == ModelResult(2, "valuation") /\ Entry(2).valuation.valuation < 5000000
        IN  /\ health => InSeq(HealthRecommendation, Report.recommendations)
            /\ value => InSeq(ValuationRecommendation, Report.recommendations)
            /\ (health /\ value) =>
                  \E i, j \in DOMAIN Report.recommendations :
                      /\ i < j
                      /\ Report.recommendations[i] = HealthRecommendation
                      /\ Report.recommendations[j] = ValuationRecommendation

\* A sub-analysis the specification counts as succeeded: success = true, or
\* the payload of a rule-based fallback.
CountsAsSuccess(result) ==
    KeyIs(result, "success", TRUE) \/ "analysis_method" \in DOMAIN result

\* C19: the summary is the all-succeeded template when every sub-analysis
\* succeeded, a rule-based fallback counting as a success, the partial
\* template with both counts when some did, and the fallback-only template
\* when none did. (A fallback result has no success key and the summary
\* counts it as not succeeded.)
C19_SummaryCountsFallbackAsSuccess ==
    last.op = "comprehensive_analysis" =>
        LET total == Len(Report.comprehensive_analysis)
            successful == Cardinality({i \in DOMAIN Report.comprehensive_analysis :
                                         CountsAsSuccess(Entry(i))})
        IN  /\ Report.summary.total = total
            /\ Report.summary.successful = successful
            /\ Report.summary.template
                 = IF successful = total
                   THEN "All {total} analyses completed successfully with high confidence"
                   ELSE IF successful > 0
                   THEN "{successful} out of {total} analyses completed successfully"
                   ELSE "Analysis completed with fallback methods due to model unavailability"

\* A result with success = false carries an error and no model payload.
FailureHasErrorOnly(result) ==
    KeyIs(result, "success", FALSE) =>
        /\ "error" \in DOMAIN result
        /\ "analysis" \notin DOMAIN result
        /\ "valuation" \notin DOMAIN result

\* C20: every result with success = false that a single-domain query
\* returns, or that comprehensive_analysis records under a key, carries an
\* error field and neither an 'analysis' nor a 'valuation' key.
C20_FailureCarriesErrorNoPayload ==
    /\ (last.op \in QueryOps /\ Returned(last.outcome)) => FailureHasErrorOnly(last.outcome.value)
    /\ last.op = "comprehensive_analysis" =>
          \A i \in DOMAIN Report.comprehensive_analysis : FailureHasErrorOnly(Entry(i))

C20_Witness ==
    /\ last.op = "comprehensive_analysis"
    /\ KeyIs(Entry(1), "success", FALSE)
    /\ "fallback_analysis" \in DOMAIN Entry(1)
    /\ Entry(1).error = "division by zero"
    /\ "analysis" \notin DOMAIN Entry(1)

\* C21: the report is synthesized only when every dispatched sub-analysis
\* has finished or faulted, and each result is stored under the key of the
\* position of its task in the dispatch list: analysis_0 is what the health
\* task gave, analysis_1 the valuation task, analysis_2 the trend task.
C21_SynthesisAfterJoinKeyedByPosition ==
    [][/\ last'.op = "comprehensive_task" =>
            /\ Len(comp'.results) = Len(comp.results) + 1
            /\ Len(comp'.results) <= Len(comp.tasks)
            /\ last'.name = comp.tasks[Len(comp'.results)]
            /\ last'.name = <<FH, BV, MT>>[Len(comp'.results)]
            /\ comp'.results[Len(comp'.results)] = last'.outcome
            /\ \A i \in DOMAIN comp.results : comp'.results[i] = comp.results[i]
       /\ last'.op = "comprehensive_analysis" =>
            /\ comp.running
            /\ Len(comp.results) = Len(comp.tasks)
            /\ DOMAIN last'.outcome.value.comprehensive_analysis = DOMAIN comp.tasks
            /\ \A i \in DOMAIN comp.tasks :
                 /\ last'.outcome.value.comprehensive_analysis[i].name
                      = <<"analysis", ToString(i - 1)>>
                 /\ Returned(comp.results[i]) =>
                      last'.outcome.value.comprehensive_analysis[i].result = comp.results[i].value
                 /\ ~Returned(comp.results[i]) =>
                      KeyIs(last'.outcome.value.comprehensive_analysis[i].result, "success", FALSE)
      ]_vars

\* A report of three results, each of its own domain: a model-path health
\* result, a valuation fallback and a trend fallback.
C21_Witness ==
    /\ last.op = "comprehensive_analysis"
    /\ Len(Report.comprehensive_analysis) = 3
    /\ Report.comprehensive_analysis[1].name = <<"analysis", "0">>
    /\ KeyIs(Entry(1), "model_used", FH)
    /\ Report.comprehensive_analysis[2].name = <<"analysis", "1">>
    /\ KeyIs(Entry(2), "analysis_method", "multiple_based_fallback")
    /\ Report.comprehensive_analysis[3].name = <<"analysis", "2">>
    /\ KeyIs(Entry(3), "analysis_method", "trend_based_fallback")

\* C22: a query and a train_model call on the same domain do not lose each
\* other's status update: train_model leaves every last_used as it was, a
\* query leaves every trained and last_trained as it was, and each writes
\* its own fields, so that after both, in either order, both updates are in
\* the status.
C22_NoLostStatusUpdate ==
    [][/\ last'.op = "train_model" =>
            /\ \A d \in Domains : model_status'[d].last_used = EnsuredStatus[d].last_used
            /\ KeyIs(last'.outcome.value, "success", TRUE) =>
                 /\ model_status'[last'.name].trained
                 /\ model_status'[last'.name].last_trained = now'
       /\ last'.op \in QueryOps =>
            /\ \A d \in Domains :
                 /\ model_status'[d].trained = EnsuredStatus[d].trained
                 /\ model_status'[d].last_trained = EnsuredStatus[d].last_trained
            /\ (Returned(last'.outcome) /\ KeyIs(last'.outcome.value, "success", TRUE)) =>
                 model_status'[last'.name].last_used = now'
      ]_vars

\* A retraining that follows a model-path query: both timestamps are set.
C22_Witness ==
    /\ last.op = "train_model"
    /\ KeyIs(last.outcome.value, "success", TRUE)
    /\ model_status[last.name].last_trained = now
    /\ model_status[last.name].last_used # None
    /\ model_status[last.name].last_used < now

\* The estimators the predict method of a domain's service uses.
Estimators(d) ==
    IF d = FH THEN HealthEstimators
    ELSE IF d = BV THEN ValuationEstimators
    ELSE MarketEstimators

\* C23: no query runs predict against a service whose trained flag is set
\* while its fitted state is missing or partial: whenever a query has
\* invoked predict, every estimator predict uses has been fitted.
\* (MarketTrendModel.train returns, and sets is_trained, only when it has
\* fitted nothing.)
C23_PredictOnlyOnFittedService ==
    \A d \in Domains :
        (QueryOn(d) /\ last.predicted) => Estimators(d) \subseteq models[d].fitted

\* C24 as claimed: a public operation called before initialize() fails with
\* a "not ready" error and leaves the orchestrator uninitialized.
C24_FailsFastBeforeInitialize ==
    [][(~initialized /\ last'.op # "initialize") =>
            /\ ~initialized'
            /\ Returned(last'.outcome)
            /\ KeyIs(last'.outcome.value, "success", FALSE)
            /\ KeyIs(last'.outcome.value, "error", "not ready")
      ]_vars

\* C24 amended: a public operation called before initialize() initializes
\* the registry as a side effect (three untrained services, each with its
\* status record) and then runs on it, giving what the same call gives on
\* a freshly initialized orchestrator; there is no "not ready" error.
C24_InitializesOnFirstUse ==
    [][(~initialized /\ last'.op # "initialize") =>
            /\ initialized'
            /\ last'.op = "get_model_status" =>
                 /\ last'.outcome = get_model_status(NewModels, NewStatus)
                 /\ models' = NewModels /\ model_status' = NewStatus
            /\ last'.op = "get_model_performance" =>
                 /\ last'.outcome = get_model_performance(last'.name, NewModels, NewStatus)
                 /\ models' = NewModels /\ model_status' = NewStatus
            /\ last'.op \in QueryOps =>
                 /\ last'.outcome = Fallback(last'.name, last'.data)
                 /\ models' = NewModels /\ model_status' = NewStatus
            /\ last'.op = "comprehensive_dispatch" =>
                 /\ models' = NewModels /\ model_status' = NewStatus
            /\ last'.op = "train_model" =>
                 LET answer == train_model(last'.name, last'.data, NewModels, NewStatus, now + 1)
                 IN  /\ last'.outcome = answer.outcome
                     /\ models' = answer.models
                     /\ model_status' = answer.status
            /\ Returned(last'.outcome) => ~KeyIs(last'.outcome.value, "error", "not ready")
      ]_vars

\* A first call that is not initialize(): it trained a model of the registry
\* it built itself (the clock had not been read before).
C24_Witness ==
    /\ last.op = "train_model"
    /\ last.t0 = 0
    /\ KeyIs(last.outcome.value, "success", TRUE)
    /\ initialized
    /\ \A d \in Domains \ {last.name} : model_status[d] = NewStatus[d]

\* C25: once initialized, the registry holds exactly the three domains,
\* each with its status record, whatever operations have run, and
\* get_model_status reports total_models = active_models = 3.
C25_RegistryHoldsThreeDomains ==
    /\ initialized =>
          /\ DOMAIN models = {"financial_health", "business_valuation", "market_trends"}
          /\ DOMAIN model_status = DOMAIN models
    /\ last.op = "get_model_status" =>
          /\ last.outcome.value.total_models = 3
          /\ last.outcome.value.active_models = 3
          /\ DOMAIN last.outcome.value.models
               = {"financial_health", "business_valuation", "market_trends"}

\* get_model_status after a training and a call on an unknown model name.
C25_Witness ==
    /\ last.op = "get_model_status"
    /\ last.outcome.value.total_models = 3
    /\ last.outcome.value.active_models = 3
    /\ \E d \in Domains : model_status[d].trained /\ model_status[d].last_used # None

\* The payload each fallback owes its input, from the rules alone: a
\* function of the input dict and of nothing else.
ExpectedPayload(d, data) ==
    IF d = FH
    THEN [health_score |-> HealthRule(data),
          risk_score |-> 100 - HealthRule(data),
          health_category |-> IF HealthRule(data) > 60 THEN "Good"
                              ELSE IF HealthRule(data) > 40 THEN "Fair" ELSE "Poor",
          risk_category |-> IF HealthRule(data) > 60 THEN "Low Risk"
                            ELSE IF HealthRule(data) > 40 THEN "Moderate Risk" ELSE "High Risk",
          analysis_method |-> "rule_based_fallback"]
    ELSE IF d = BV
    THEN [valuation |-> ValuationRule(data),
          valuation_range |-> [min |-> (8 * ValuationRule(data)) \div 10,
                               max |-> (12 * ValuationRule(data)) \div 10],
          methodology |-> <<"Revenue multiple approach", "Profit multiple approach">>,
          analysis_method |-> "multiple_based_fallback"]
    ELSE [trend_direction |-> IF Amount(data, "price_change_percent", 0) > 200 THEN "bullish"
                              ELSE IF Amount(data, "price_change_percent", 0) < 0 - 200
                              THEN "bearish" ELSE "neutral",
          confidence_score |-> 5,
          key_factors |-> <<"Price movement analysis">>,
          analysis_method |-> "trend_based_fallback"]

\* C26: the fallbacks are deterministic and stateless. In every orchestrator
\* state (any trained flags, timestamps and earlier calls) a query that
\* answers by fallback returns the payload its input alone determines, a
\* query whose predict raised attaches that same payload, and neither
\* changes a service, a status record or the clock.
C26_FallbackDependsOnInputOnly ==
    [][(last'.op \in QueryOps /\ IsDict(last'.data)) =>
            /\ ~last'.predicted =>
                 /\ last'.outcome = Return(ExpectedPayload(last'.name, last'.data))
                 /\ models' = EnsuredModels
                 /\ model_status' = EnsuredStatus
                 /\ now' = now
            /\ (last'.predicted /\ KeyIs(last'.outcome.value, "success", FALSE)) =>
                 /\ last'.outcome.value[FallbackKey(last'.name)]
                      = ExpectedPayload(last'.name, last'.data)
                 /\ models' = EnsuredModels
                 /\ model_status' = EnsuredStatus
                 /\ now' = now
      ]_vars

\* The trend fallback of a rising market, computed by a query in a state in
\* which models were trained and used and the clock has advanced.
C26_Witness ==
    /\ last.op \in QueryOps
    /\ last.name = MT
    /\ ~last.predicted
    /\ last.data = RisingMarket
    /\ last.outcome = Return(ExpectedPayload(MT, RisingMarket))
    /\ last.outcome.value.trend_direction = "bullish"
    /\ now = MaxTime
    /\ \E d \in Domains : model_status[d].trained /\ model_status[d].last_used # None

\* The threshold conditions of C17 and C18 on the results of the report.
InsightRuleFires ==
    \/ ModelResult(1, "analysis") /\ Entry(1).analysis.health_score > 80
    \/ ModelResult(1, "analysis") /\ Entry(1).analysis.health_score < 40
    \/ ModelResult(2, "valuation") /\ Entry(2).valuation.valuation > 10000000
    \/ ModelResult(3, "analysis") /\ Entry(3).analysis.trend_direction = "bullish"

RecommendationRuleFires ==
    \/ ModelResult(1, "analysis") /\ Entry(1).analysis.health_score < 50
    \/ ModelResult(2, "valuation") /\ Entry(2).valuation.valuation < 5000000

DefaultRecommendation ==
    [category |-> "General", action |-> "Continue monitoring key financial metrics",
     priority |-> "Low", timeline |-> "Ongoing"]

\* C27: when no threshold rule fires on the results of the report, insights
\* is the one default string and recommendations the one default item; when
\* a rule fires, the default is not in the list. (No rule ever fires in the
\* code, so the default is present also when a threshold is met.)
C27_DefaultOnlyWhenNoRuleFires ==
    last.op = "comprehensive_analysis" =>
        /\ ~InsightRuleFires => Report.insights = <<"Analysis completed successfully">>
        /\ InsightRuleFires => ~InSeq("Analysis completed successfully", Report.insights)
        /\ ~RecommendationRuleFires => Report.recommendations = <<DefaultRecommendation>>
        /\ RecommendationRuleFires => ~InSeq(DefaultRecommendation, Report.recommendations)

\* C28: in every state of an initialized orchestrator the trained flag of
\* each status record equals the is_trained flag of the service, which is
\* what the query dispatch tests. (A health training that fails in
\* cross_val_score has set is_trained and leaves the status untrained.)
C28_StatusAgreesWithService ==
    initialized => \A d \in Domains : model_status[d].trained = models[d].is_trained

\* C29: a query that answers by fallback, or whose predict raises, leaves
\* every status record as it was; a query whose predict returns changes
\* last_used of its own domain and nothing else in any record.
C29_QueryFrame ==
    [][last'.op \in QueryOps =>
            IF last'.predicted /\ Returned(last'.outcome)
                              /\ KeyIs(last'.outcome.value, "success", TRUE)
            THEN /\ model_status'
                      = [EnsuredStatus EXCEPT ![last'.name].last_used = now']
                 /\ now' = now + 1
            ELSE model_status' = EnsuredStatus
      ]_vars

\* A model-path query on one domain while another domain is trained: the
\* other record keeps its timestamps.
C29_Witness ==
    /\ last.op \in QueryOps
    /\ last.predicted
    /\ Returned(last.outcome)
    /\ KeyIs(last.outcome.value, "success", TRUE)
    /\ model_status[last.name].last_used = now
    /\ \E d \in Domains \ {last.name} :
          /\ model_status[d].trained
          /\ model_status[d].last_trained # None
          /\ model_status[d].last_used = None

\* C30: the financial-health fallback of every dict of numbers has its
\* score among 50, 60, ..., 100 and risk_score 100 - score, is never Poor
\* nor High Risk, and is Good exactly when it is Low Risk.
C30_FallbackHealthRange ==
    (last.op = "analyze_financial_health" /\ IsDict(last.data) /\ ~last.predicted) =>
        /\ Returned(last.outcome)
        /\ last.outcome.value.health_score \in {50, 60, 70, 80, 90, 100}
        /\ last.outcome.value.health_score + last.outcome.value.risk_score = 100
        /\ last.outcome.value.health_category # "Poor"
        /\ last.outcome.value.risk_category # "High Risk"
        /\ (last.outcome.value.health_category = "Good"
              <=> last.outcome.value.risk_category = "Low Risk")

\* The lowest score: no margin bonus, debt ratio at 0.7, small revenue.
C30_Witness ==
    /\ last.op = "analyze_financial_health"
    /\ last.data = Dict([revenue |-> 100, net_income |-> 5,
                         total_assets |-> 100, total_liabilities |-> 70])
    /\ ~last.predicted
    /\ last.outcome.value.health_score = 50
    /\ last.outcome.value.risk_score = 50
    /\ last.outcome.value.health_category = "Fair"
    /\ last.outcome.value.risk_category = "Moderate Risk"

====
